---------------------------- MODULE Spec2Model ----------------------------
(***************************************************************************)
(* get_residuals (src/src/get_residuals.cpp): residuals of a linear model  *)
(* fit, row by row, from a pre-computed QR factorization, with values at   *)
(* or below a lower bound forced below the smallest residual of the row.   *)
(*                                                                         *)
(* Arithmetic is exact.  A number is <<a, b, d>>, the value                *)
(* (a + b*sqrt(3)) / d with d > 0 and gcd(a, b, d) = 1, so that the        *)
(* Householder reflectors of the intercept-only design on 3 samples        *)
(* (which involve sqrt(3)) are represented without rounding.  The lower    *)
(* bound is an IEEE double that may also be -Inf, +Inf or NaN.             *)
(***************************************************************************)
EXTENDS Integers, Sequences, FiniteSets, TLC

\* ------------------------------------------------------------------ bounds
\* Longest subset vector passed to get_residuals.
MaxSubsetLen == 2

\* ------------------------------------------------------- exact arithmetic
Abs(x) == IF x < 0 THEN -x ELSE x

RECURSIVE GCD(_, _)
GCD(x, y) == IF y = 0 THEN x ELSE GCD(y, x % y)

Norm(a, b, d) ==
    LET g == GCD(GCD(Abs(a), Abs(b)), d)
    IN  <<a \div g, b \div g, d \div g>>

Num(n) == <<n, 0, 1>>
Zero == Num(0)
One == Num(1)

Add(x, y) == Norm(x[1] * y[3] + y[1] * x[3], x[2] * y[3] + y[2] * x[3], x[3] * y[3])
Neg(x) == <<-x[1], -x[2], x[3]>>
Sub(x, y) == Add(x, Neg(y))
Mul(x, y) == Norm(x[1] * y[1] + 3 * x[2] * y[2], x[1] * y[2] + x[2] * y[1], x[3] * y[3])

\* Sign of a + b*sqrt(3).
Sign(x) ==
    LET a == x[1]
        b == x[2]
    IN  IF a = 0 /\ b = 0 THEN 0
        ELSE IF a >= 0 /\ b >= 0 THEN 1
        ELSE IF a <= 0 /\ b <= 0 THEN -1
        ELSE IF a > 0 THEN (IF a * a > 3 * b * b THEN 1 ELSE -1)
        ELSE (IF 3 * b * b > a * a THEN 1 ELSE -1)

Less(x, y) == Sign(Sub(x, y)) < 0

RECURSIVE SumSeq(_)
SumSeq(xs) == IF xs = <<>> THEN Zero ELSE Add(Head(xs), SumSeq(Tail(xs)))

Dot(u, x) == SumSeq([i \in 1..Len(u) |-> Mul(u[i], x[i])])

\* ----------------------------------------------------------- IEEE doubles
\* The lower bound as passed from R: a finite value, an infinity or NaN.
Fin(n) == [kind |-> "fin", v |-> n]
NInf == [kind |-> "ninf", v |-> 0]
PInf == [kind |-> "pinf", v |-> 0]
NaN == [kind |-> "nan", v |-> 0]

\* R_FINITE(x): neither infinite nor NaN/NA.
R_FINITE(x) == x.kind = "fin"

\* Variant of LeqBound: strict comparison, value < bound.
LeqBound_Strict(value, bound) ==
    CASE bound.kind = "fin" -> Less(value, Num(bound.v))
      [] bound.kind = "pinf" -> TRUE
      [] OTHER -> FALSE

\* value <= bound for a finite value and a double bound (IEEE comparison:
\* nothing compares <= NaN or <= -Inf, everything finite is <= +Inf).
LeqBound(value, bound) ==
    CASE bound.kind = "fin" -> ~Less(Num(bound.v), value)
      [] bound.kind = "pinf" -> TRUE
      [] OTHER -> FALSE

\* ------------------------------------------------ Orthogonal multiplier
\* run_dormqr (run_dormqr.h) wraps LAPACK dormqr.  The factorization is the
\* pair qr()/qraux of R: Q = H_1 H_2 ... H_k with H_i = I - tau_i v_i v_i^T,
\* v_i stored in column i of qr (nrow entries), tau_i = qraux[i].
Range(n) == [i \in 1..n |-> i]
Reverse(xs) == [i \in 1..Len(xs) |-> xs[Len(xs) + 1 - i]]

\* One elementary reflector applied in place to the first Len(v) entries.
ApplyReflector(v, tau, x) ==
    LET n == Len(v)
        d == Dot(v, [i \in 1..n |-> x[i]])
    IN  [i \in 1..Len(x) |->
            IF i <= n THEN Sub(x[i], Mul(Mul(tau, v[i]), d)) ELSE x[i]]

RECURSIVE ApplyReflectors(_, _, _, _)
ApplyReflectors(qr, qraux, order, x) ==
    IF order = <<>> THEN x
    ELSE ApplyReflectors(qr, qraux, Tail(order),
                         ApplyReflector(qr.v[Head(order)], qraux[Head(order)], x))

\* dormqr, side 'L': x <- Q^T x (trans = "T") or x <- Q x (trans = "N") on
\* the first nrow(qr) entries of the memory at rhs.
dormqr(trans, qr, qraux, x) ==
    ApplyReflectors(qr, qraux,
                    IF trans = "T" THEN Range(qr.ncol) ELSE Reverse(Range(qr.ncol)), x)

\* run_dormqr's constructor accepts a factorization whose auxiliary vector
\* has one entry per column of the QR matrix.
run_dormqr_valid(qr, qraux) == Len(qraux) = qr.ncol

run_dormqr(qr, qraux, type) ==
    [qr |-> qr, qraux |-> qraux, trans |-> type, nobs |-> qr.nrow, ncoef |-> qr.ncol]

get_ncoefs(mult) == mult.ncoef

\* run_dormqr::run(rhs) on the memory starting at rhs.
run(mult, mem) == dormqr(mult.trans, mult.qr, mult.qraux, mem)

\* ------------------------------------------------------- argument checks
\* check_subset_vector (utils.h): every index must lie in [0, len).
check_subset_ok(subset, len) == \A i \in 1..Len(subset) : subset[i] >= 0 /\ subset[i] < len

\* check_numeric_scalar (utils.h): a numeric vector of length one.
check_numeric_scalar_ok(lower_bound) == Len(lower_bound) = 1

\* ---------------------------------------------------- output parameters
\* beachmat::output_param(class, package) mirrors the input's tags;
\* beachmat::output_param() is the default, an ordinary dense matrix.
output_param(cls, pkg) == [cls |-> cls, pkg |-> pkg]
output_param_default == [cls |-> "matrix", pkg |-> "base"]

\* Line 36: the condition under which OPARAM is reset to the default.
IsSparseException(emat) == emat.cls = "dgCMatrix" /\ emat.cls = "Matrix"

SelectOutputParam(emat) ==
    IF IsSparseException(emat) THEN output_param_default
    ELSE output_param(emat.cls, emat.pkg)

\* ------------------------------------------------------ per-row kernels
\* Lines 50-57: columns (0-based) whose value is <= lbound, appended to the
\* deque in increasing column order.
RECURSIVE ScanFrom(_, _, _, _)
ScanFrom(tmp, lbound, c, below) ==
    IF c >= Len(tmp) THEN below
    ELSE ScanFrom(tmp, lbound, c + 1,
                  IF LeqBound(tmp[c + 1], lbound) THEN Append(below, c) ELSE below)

\* Variant of FillZero: one entry fewer is zeroed.
FillZero_OffByOne(tmp, ncoefs) ==
    [i \in 1..Len(tmp) |-> IF i < ncoefs THEN Zero ELSE tmp[i]]

\* Line 60: std::fill(tmp.begin(), tmp.begin() + ncoefs, 0).
FillZero(tmp, ncoefs) == [i \in 1..Len(tmp) |-> IF i <= ncoefs THEN Zero ELSE tmp[i]]

\* std::min_element then its value.
RECURSIVE MinFrom(_, _, _)
MinFrom(tmp, i, best) ==
    IF i > Len(tmp) THEN best
    ELSE MinFrom(tmp, i + 1, IF Less(tmp[i], best) THEN tmp[i] ELSE best)

MinElement(tmp) == MinFrom(tmp, 2, tmp[1])

\* Variant of Lowest: the smallest residual itself, without the margin.
Lowest_NoMargin(tmp) == MinElement(tmp)

\* Line 65.
Lowest(tmp) == Sub(MinElement(tmp), One)

\* Lines 66-68: tmp[*bbIt] = lowest for every recorded column.
RECURSIVE Overwrite(_, _, _)
Overwrite(tmp, below, lowest) ==
    IF below = <<>> THEN tmp
    ELSE Overwrite([tmp EXCEPT ![Head(below) + 1] = lowest], Tail(below), lowest)

\* Lines 59-61 as one function of the row buffer (no out-of-bounds access:
\* nobs <= Len(tmp)).
QRResiduals(qr, qraux, tmp) ==
    run(run_dormqr(qr, qraux, "N"),
        FillZero(run(run_dormqr(qr, qraux, "T"), tmp), qr.ncol))

\* ------------------------------------------------------------ inputs
\* Factorizations as qr(design, LAPACK=TRUE) returns them.
\* Intercept-only design on 3 samples: v = (1, (sqrt3-1)/2, (sqrt3-1)/2),
\* tau = 1 + 1/sqrt3.
QR3 == [nrow |-> 3, ncol |-> 1, v |-> << <<One, <<-1, 1, 2>>, <<-1, 1, 2>>>> >>]
QRAUX3 == << <<3, 1, 3>> >>
\* Intercept-only design on 4 samples: v = (1, 1/3, 1/3, 1/3), tau = 3/2.
QR4 == [nrow |-> 4, ncol |-> 1,
        v |-> << <<One, <<1, 0, 3>>, <<1, 0, 3>>, <<1, 0, 3>>>> >>]
QRAUX4 == << <<3, 0, 2>> >>
\* Two-group design on 4 samples, columns (1,1,1,1) and (1,1,-1,-1):
\* second reflector v = (0, 1, -1/2, -1/2), tau = 4/3.
QR4G == [nrow |-> 4, ncol |-> 2,
         v |-> << <<One, <<1, 0, 3>>, <<1, 0, 3>>, <<1, 0, 3>>>>,
                  <<Zero, One, <<-1, 0, 2>>, <<-1, 0, 2>>>> >>]
QRAUX4G == << <<3, 0, 2>>, <<4, 0, 3>> >>

Factorizations ==
    { [qr |-> QR3, qraux |-> QRAUX3],
      [qr |-> QR4, qraux |-> QRAUX4],
      [qr |-> QR4G, qraux |-> QRAUX4G],
      [qr |-> QR4G, qraux |-> QRAUX4] }     \* auxiliary vector too short

\* Expression matrices (features x samples) with their class/package tags.
Matrices ==
    { [cls |-> "matrix", pkg |-> "base", nrow |-> 2, ncol |-> 3,
       rows |-> << <<5, 1, 9>>, <<0, 2, 1>> >>],
      [cls |-> "dgCMatrix", pkg |-> "Matrix", nrow |-> 2, ncol |-> 4,
       rows |-> << <<4, 0, 3, 1>>, <<2, 2, 6, 0>> >>],
      [cls |-> "dgCMatrix", pkg |-> "other", nrow |-> 2, ncol |-> 3,
       rows |-> << <<1, 1, 1>>, <<3, 2, 0>> >>],
      [cls |-> "dgeMatrix", pkg |-> "Matrix", nrow |-> 2, ncol |-> 4,
       rows |-> << <<0, 0, 0, 8>>, <<9, 3, 1, 1>> >>] }

\* Lower-bound arguments: R numeric vectors (a scalar has length one).
LowerBounds == { <<Fin(2)>>, <<NInf>>, <<PInf>>, <<NaN>>, <<>> }

\* Subset vectors: 0-based row indices, one past the last row included.
SubsetIndices == 0..2
SubsetVectors == UNION { [1..n -> SubsetIndices] : n \in 0..MaxSubsetLen }

\* Values an out-of-bounds read past the end of the row buffer may return.
Garbage == { Zero, Num(7) }

\* ------------------------------------------------------------- state
VARIABLES
    pc,           \* position in get_residuals
    args,         \* the arguments of the call: exprs, qr, qraux, subset, lower_bound
    emat,         \* the input matrix as seen through beachmat
    ncells,       \* emat->get_ncol()
    subout,       \* the checked subset vector
    slen,         \* subout.size()
    multQ1,       \* run_dormqr(qr, qraux, 'T')
    multQ2,       \* run_dormqr(qr, qraux, 'N')
    ncoefs,       \* multQ1.get_ncoefs()
    lbound,       \* the lower bound as a double
    check_lower,  \* R_FINITE(lbound)
    OPARAM,       \* output parameters
    omat,         \* the output matrix
    tmp,          \* the row buffer
    below_bound,  \* std::deque<int> of censored columns
    s,            \* loop counter
    log,          \* calls made on the matrices and the multipliers, in order
    prev          \* rows returned by the previous call on the same inputs

vars == <<pc, args, emat, ncells, subout, slen, multQ1, multQ2, ncoefs, lbound,
          check_lower, OPARAM, omat, tmp, below_bound, s, log, prev>>

locals == <<emat, ncells, subout, slen, multQ1, multQ2, ncoefs, lbound,
            check_lower, OPARAM, omat, tmp, below_bound, s>>

None == <<>>
NoMult == [qr |-> None, qraux |-> None, trans |-> "", nobs |-> 0, ncoef |-> 0]
NoMatrix == [nrow |-> 0, ncol |-> 0, param |-> None, rows |-> <<>>, yielded |-> FALSE]
NoPrev == [n |-> -1, rows |-> <<>>]

Arguments ==
    { [exprs |-> m, qr |-> f.qr, qraux |-> f.qraux, subset |-> sub, lower_bound |-> lb] :
        m \in Matrices, f \in Factorizations, sub \in SubsetVectors, lb \in LowerBounds }

\* State on entry to get_residuals, locals not yet constructed.
Entry(a) ==
    /\ pc = "entry"
    /\ args = a
    /\ emat = None
    /\ ncells = 0
    /\ subout = <<>>
    /\ slen = 0
    /\ multQ1 = NoMult
    /\ multQ2 = NoMult
    /\ ncoefs = 0
    /\ lbound = NaN
    /\ check_lower = FALSE
    /\ OPARAM = None
    /\ omat = NoMatrix
    /\ tmp = <<>>
    /\ below_bound = <<>>
    /\ s = 0
    /\ log = <<>>

Init == \E a \in Arguments : Entry(a) /\ prev = NoPrev

\* ----------------------------------------------------------- actions
\* Lines 18-23: wrap the input, read its column count, check the subset.
CheckSubset ==
    /\ pc = "entry"
    /\ emat' = args.exprs
    /\ ncells' = args.exprs.ncol
    /\ IF check_subset_ok(args.subset, args.exprs.nrow)
       THEN subout' = args.subset /\ slen' = Len(args.subset) /\ pc' = "qr"
       ELSE pc' = "error" /\ UNCHANGED <<subout, slen>>
    /\ UNCHANGED <<args, multQ1, multQ2, ncoefs, lbound, check_lower, OPARAM, omat,
                   tmp, below_bound, s, log, prev>>

\* Lines 25-28: construct the two multipliers, read the coefficient count.
CheckQR ==
    /\ pc = "qr"
    /\ IF run_dormqr_valid(args.qr, args.qraux)
       THEN /\ multQ1' = run_dormqr(args.qr, args.qraux, "T")
            /\ multQ2' = run_dormqr(args.qr, args.qraux, "N")
            /\ ncoefs' = get_ncoefs(run_dormqr(args.qr, args.qraux, "T"))
            /\ pc' = "lbound"
       ELSE pc' = "error" /\ UNCHANGED <<multQ1, multQ2, ncoefs>>
    /\ UNCHANGED <<args, emat, ncells, subout, slen, lbound, check_lower, OPARAM, omat,
                   tmp, below_bound, s, log, prev>>

\* Variant of CheckLowerFlag: only NaN disables the bound.
CheckLowerFlag_NotNaN(lb) == lb.kind # "nan"

\* Line 32.
CheckLowerFlag(lb) == R_FINITE(lb)

\* Variant of CheckLower: a non-scalar bound is taken as "no bound" instead
\* of being rejected.
CheckLower_NoThrow ==
    /\ pc = "lbound"
    /\ IF check_numeric_scalar_ok(args.lower_bound)
       THEN /\ lbound' = args.lower_bound[1]
            /\ check_lower' = R_FINITE(args.lower_bound[1])
       ELSE /\ lbound' = NaN
            /\ check_lower' = FALSE
    /\ pc' = "oparam"
    /\ UNCHANGED <<args, emat, ncells, subout, slen, multQ1, multQ2, ncoefs, OPARAM, omat,
                   tmp, below_bound, s, log, prev>>

\* Lines 30-32: the lower bound must be a scalar; it is enabled when finite.
CheckLower ==
    /\ pc = "lbound"
    /\ IF check_numeric_scalar_ok(args.lower_bound)
       THEN /\ lbound' = args.lower_bound[1]
            /\ check_lower' = CheckLowerFlag(args.lower_bound[1])
            /\ pc' = "oparam"
       ELSE pc' = "error" /\ UNCHANGED <<lbound, check_lower>>
    /\ UNCHANGED <<args, emat, ncells, subout, slen, multQ1, multQ2, ncoefs, OPARAM, omat,
                   tmp, below_bound, s, log, prev>>

\* Lines 34-38: output parameters from the input's class and package.
SelectOutput ==
    /\ pc = "oparam"
    /\ OPARAM' = SelectOutputParam(emat)
    /\ pc' = "alloc"
    /\ UNCHANGED <<args, emat, ncells, subout, slen, multQ1, multQ2, ncoefs, lbound,
                   check_lower, omat, tmp, below_bound, s, log, prev>>

\* beachmat::create_numeric_output(nrow, ncol, param): rows not yet set.
create_numeric_output(nr, nc, param) ==
    [nrow |-> nr, ncol |-> nc, param |-> param, rows |-> [i \in 1..nr |-> None],
     yielded |-> FALSE]

\* Variant of CreateOutput: row and column counts exchanged.
CreateOutput_Swapped ==
    /\ pc = "alloc"
    /\ omat' = create_numeric_output(ncells, slen, OPARAM)
    /\ log' = Append(log, <<"alloc", ncells, slen>>)
    /\ tmp' = [i \in 1..ncells |-> Zero]
    /\ below_bound' = <<>>
    /\ s' = 0
    /\ pc' = "loop"
    /\ UNCHANGED <<args, emat, ncells, subout, slen, multQ1, multQ2, ncoefs, lbound,
                   check_lower, OPARAM, prev>>

\* Lines 39-45: allocate the output and the row buffer, start the loop.
CreateOutput ==
    /\ pc = "alloc"
    /\ omat' = create_numeric_output(slen, ncells, OPARAM)
    /\ log' = Append(log, <<"alloc", slen, ncells>>)
    /\ tmp' = [i \in 1..ncells |-> Zero]
    /\ below_bound' = <<>>
    /\ s' = 0
    /\ pc' = "loop"
    /\ UNCHANGED <<args, emat, ncells, subout, slen, multQ1, multQ2, ncoefs, lbound,
                   check_lower, OPARAM, prev>>

\* emat->get_row(r, out): row r of the input as doubles.
get_row(m, r) == [c \in 1..m.ncol |-> Num(m.rows[r + 1][c])]

\* Lines 46-47: loop test passed, read row subout[s] into the buffer.
GetRow ==
    /\ pc = "loop"
    /\ s < slen
    /\ tmp' = get_row(emat, subout[s + 1])
    /\ log' = Append(log, <<"get_row", subout[s + 1]>>)
    /\ pc' = "scan"
    /\ UNCHANGED <<args, emat, ncells, subout, slen, multQ1, multQ2, ncoefs, lbound,
                   check_lower, OPARAM, omat, below_bound, s, prev>>

\* Lines 49-57: record the columns at or below the bound.
Scan ==
    /\ pc = "scan"
    /\ below_bound' = IF check_lower THEN ScanFrom(tmp, lbound, 0, below_bound)
                      ELSE below_bound
    /\ pc' = "multQ1"
    /\ UNCHANGED <<args, emat, ncells, subout, slen, multQ1, multQ2, ncoefs, lbound,
                   check_lower, OPARAM, omat, tmp, s, log, prev>>

\* The buffers run(tptr) may leave behind.  dormqr works on nobs doubles
\* starting at tptr; when nobs exceeds the buffer length it reads and writes
\* past the end of the buffer (undefined behaviour): the values read there
\* are arbitrary.
RunOutcomes(mult, buf) ==
    IF mult.nobs <= Len(buf) THEN { run(mult, buf) }
    ELSE { SubSeq(run(mult, buf \o g), 1, Len(buf)) :
             g \in [1..(mult.nobs - Len(buf)) -> Garbage] }

\* Line 59: tmp <- Q^T tmp.
MultQ1 ==
    /\ pc = "multQ1"
    /\ \/ /\ tmp' \in RunOutcomes(multQ1, tmp)
          /\ pc' = "fill"
       \/ /\ multQ1.nobs > ncells          \* the out-of-bounds access faults
          /\ pc' = "crashed"
          /\ UNCHANGED tmp
    /\ log' = Append(log, <<"run", "T">>)
    /\ UNCHANGED <<args, emat, ncells, subout, slen, multQ1, multQ2, ncoefs, lbound,
                   check_lower, OPARAM, omat, below_bound, s, prev>>

\* Line 60: zero the first ncoefs entries.
Fill ==
    /\ pc = "fill"
    /\ tmp' = FillZero(tmp, ncoefs)
    /\ log' = Append(log, <<"fill", ncoefs>>)
    /\ pc' = "multQ2"
    /\ UNCHANGED <<args, emat, ncells, subout, slen, multQ1, multQ2, ncoefs, lbound,
                   check_lower, OPARAM, omat, below_bound, s, prev>>

\* Line 61: tmp <- Q tmp.
MultQ2 ==
    /\ pc = "multQ2"
    /\ \/ /\ tmp' \in RunOutcomes(multQ2, tmp)
          /\ pc' = "sentinel"
       \/ /\ multQ2.nobs > ncells
          /\ pc' = "crashed"
          /\ UNCHANGED tmp
    /\ log' = Append(log, <<"run", "N">>)
    /\ UNCHANGED <<args, emat, ncells, subout, slen, multQ1, multQ2, ncoefs, lbound,
                   check_lower, OPARAM, omat, below_bound, s, prev>>

\* Variant of Sentinel: the deque is not cleared after the overwrite.
Sentinel_NoClear ==
    /\ pc = "sentinel"
    /\ IF check_lower /\ below_bound # <<>>
       THEN tmp' = Overwrite(tmp, below_bound, Lowest(tmp))
       ELSE UNCHANGED tmp
    /\ pc' = "set_row"
    /\ UNCHANGED <<args, emat, ncells, subout, slen, multQ1, multQ2, ncoefs, lbound,
                   check_lower, OPARAM, omat, below_bound, s, log, prev>>

\* Lines 63-70: force the recorded columns below the smallest residual and
\* clear the deque.
Sentinel ==
    /\ pc = "sentinel"
    /\ IF check_lower /\ below_bound # <<>>
       THEN /\ tmp' = Overwrite(tmp, below_bound, Lowest(tmp))
            /\ below_bound' = <<>>
       ELSE UNCHANGED <<tmp, below_bound>>
    /\ pc' = "set_row"
    /\ UNCHANGED <<args, emat, ncells, subout, slen, multQ1, multQ2, ncoefs, lbound,
                   check_lower, OPARAM, omat, s, log, prev>>

\* Variant of SetRow: every row is written to output row 0.
SetRow_FirstRow ==
    /\ pc = "set_row"
    /\ omat' = [omat EXCEPT !.rows[1] = tmp]
    /\ log' = Append(log, <<"set_row", 0>>)
    /\ s' = s + 1
    /\ pc' = "loop"
    /\ UNCHANGED <<args, emat, ncells, subout, slen, multQ1, multQ2, ncoefs, lbound,
                   check_lower, OPARAM, tmp, below_bound, prev>>

\* Line 72 and the loop increment: write the buffer as output row s.
SetRow ==
    /\ pc = "set_row"
    /\ omat' = [omat EXCEPT !.rows[s + 1] = tmp]
    /\ log' = Append(log, <<"set_row", s>>)
    /\ s' = s + 1
    /\ pc' = "loop"
    /\ UNCHANGED <<args, emat, ncells, subout, slen, multQ1, multQ2, ncoefs, lbound,
                   check_lower, OPARAM, tmp, below_bound, prev>>

\* Line 75: loop test failed, finalize and return the output.
Yield ==
    /\ pc = "loop"
    /\ s >= slen
    /\ omat' = [omat EXCEPT !.yielded = TRUE]
    /\ log' = Append(log, <<"yield">>)
    /\ pc' = "done"
    /\ UNCHANGED <<args, emat, ncells, subout, slen, multQ1, multQ2, ncoefs, lbound,
                   check_lower, OPARAM, tmp, below_bound, s, prev>>

\* No access past the end of the row buffer in this call.
InBounds(a) == a.qr.nrow <= a.exprs.ncol

\* The output row of the finished call for each input row it processed.
RowsReturned ==
    [r \in 0..(emat.nrow - 1) |->
        IF \E i \in 1..slen : subout[i] = r
        THEN omat.rows[CHOOSE i \in 1..slen : subout[i] = r /\ \A j \in 1..(i - 1) : subout[j] # r]
        ELSE None]

\* get_residuals is called again on the same matrix, factorization and
\* lower bound with another subset; the rows of a returned result are kept
\* for comparison.
NextCall ==
    /\ pc \in {"done", "error", "crashed"}
    /\ prev' = IF pc = "done" /\ InBounds(args)
               THEN [n |-> slen, rows |-> RowsReturned]
               ELSE NoPrev
    /\ \E sub \in SubsetVectors :
          /\ args' = [args EXCEPT !.subset = sub]
          /\ pc' = "entry"
          /\ emat' = None
          /\ ncells' = 0
          /\ subout' = <<>>
          /\ slen' = 0
          /\ multQ1' = NoMult
          /\ multQ2' = NoMult
          /\ ncoefs' = 0
          /\ lbound' = NaN
          /\ check_lower' = FALSE
          /\ OPARAM' = None
          /\ omat' = NoMatrix
          /\ tmp' = <<>>
          /\ below_bound' = <<>>
          /\ s' = 0
          /\ log' = <<>>

Next ==
    \/ CheckSubset
    \/ CheckQR
    \/ CheckLower
    \/ SelectOutput
    \/ CreateOutput
    \/ GetRow
    \/ Scan
    \/ MultQ1
    \/ Fill
    \/ MultQ2
    \/ Sentinel
    \/ SetRow
    \/ Yield
    \/ NextCall

Spec == Init /\ [][Next]_vars

\* ----------------------------------------------------------- properties
\* Raw input values of the row written as output row i (1-based position in
\* the subset), and the output row itself.
RawRow(i) == args.exprs.rows[subout[i] + 1]
OutRow(i) == omat.rows[i]
Cols == 1..args.exprs.ncol
BoundFinite == Len(args.lower_bound) = 1 /\ args.lower_bound[1].kind = "fin"
BoundValue == args.lower_bound[1].v
AsNums(row) == [c \in 1..Len(row) |-> Num(row[c])]

\* Smallest entry of a vector, stated declaratively.
Smallest(xs) ==
    CHOOSE x \in {xs[c] : c \in 1..Len(xs)} : \A c \in 1..Len(xs) : ~Less(xs[c], x)

\* Column j of Q, and the least-squares residual row - Q1 (Q1^T row) with Q1
\* the first ncol(qr) columns of Q.
UnitVector(n, j) == [i \in 1..n |-> IF i = j THEN One ELSE Zero]
QColumn(qr, qraux, j) == dormqr("N", qr, qraux, UnitVector(qr.nrow, j))
RECURSIVE ProjectOut(_, _, _, _, _)
ProjectOut(qr, qraux, row, acc, j) ==
    IF j > qr.ncol THEN acc
    ELSE LET q == QColumn(qr, qraux, j)
             coef == Dot(q, row)
         IN  ProjectOut(qr, qraux, row,
                        [i \in 1..Len(acc) |-> Sub(acc[i], Mul(coef, q[i]))], j + 1)
LeastSquaresResidual(qr, qraux, row) == ProjectOut(qr, qraux, row, row, 1)

\* C1: in every written row of a call with a finite lower bound, the output
\* at each column whose raw value is <= the bound is strictly less than the
\* output at each column whose raw value is > the bound.
C1_SentinelBelowResiduals ==
    \A i \in 1..s :
        BoundFinite =>
            \A c \in Cols, d \in Cols :
                (RawRow(i)[c] <= BoundValue /\ RawRow(i)[d] > BoundValue)
                    => Less(OutRow(i)[c], OutRow(i)[d])

\* A written row with censored and uncensored columns, where the smallest
\* residual belongs to an uncensored column.
C1_Witness ==
    /\ pc = "done"
    /\ BoundFinite
    /\ InBounds(args)
    /\ \E i \in 1..s :
          LET res == QRResiduals(args.qr, args.qraux, AsNums(RawRow(i)))
          IN  /\ \E c \in Cols : RawRow(i)[c] <= BoundValue
              /\ \E d \in Cols : RawRow(i)[d] > BoundValue /\ res[d] = Smallest(res)

\* C9: with a finite lower bound, a written row holds m - 1 at the columns
\* whose raw value is <= the bound, m the smallest entry of the row's
\* residual vector (censored columns included), and the residual itself at
\* the other columns; a row censored everywhere is constant.  For the
\* intercept-only design on 3 samples, row [5, 1, 9] and bound 2 the output
\* is [0, -5, 4].
C9_CensoredGetMinMinusOne ==
    (BoundFinite /\ InBounds(args)) =>
        \A i \in 1..s :
            LET res == QRResiduals(args.qr, args.qraux, AsNums(RawRow(i)))
                m == Smallest(res)
            IN  /\ \A c \in Cols :
                      OutRow(i)[c] = IF RawRow(i)[c] <= BoundValue
                                     THEN Sub(m, One) ELSE res[c]
                /\ (\A c \in Cols : RawRow(i)[c] <= BoundValue)
                      => \A c \in Cols : OutRow(i)[c] = Sub(m, One)
                /\ (args.qr = QR3 /\ RawRow(i) = <<5, 1, 9>> /\ BoundValue = 2)
                      => OutRow(i) = <<Num(0), Num(-5), Num(4)>>

\* A finished call that wrote a row censored at a value equal to the bound
\* and a row censored everywhere.
C9_Witness ==
    /\ pc = "done"
    /\ BoundFinite
    /\ InBounds(args)
    /\ \E i \in 1..s : \E c \in Cols, d \in Cols :
          RawRow(i)[c] = BoundValue /\ RawRow(i)[d] > BoundValue
    /\ \E i \in 1..s : \A c \in Cols : RawRow(i)[c] <= BoundValue

\* C7: with a non-finite lower bound (-Inf, +Inf, NaN) the bound check is
\* off, no column is ever recorded as censored and every written row is the
\* plain QR residual of its input row.
C7_NonFiniteBoundDisablesCensoring ==
    (Len(args.lower_bound) = 1 /\ args.lower_bound[1].kind # "fin"
        /\ pc \notin {"entry", "qr", "lbound", "error"}) =>
        /\ ~check_lower
        /\ below_bound = <<>>
        /\ InBounds(args) =>
              \A i \in 1..s :
                  OutRow(i) = QRResiduals(args.qr, args.qraux, AsNums(RawRow(i)))

\* A finished call with bound +Inf (every value is <= it) that wrote a row.
C7_Witness ==
    /\ pc = "done"
    /\ args.lower_bound = <<PInf>>
    /\ InBounds(args)
    /\ s >= 1

\* The calls a finished row leaves in the log: output row i (1-based) is
\* produced by get_row, Q^T, zero-fill, Q, set_row, in that order.
RowSegment(i) == SubSeq(log, 5 * i - 3, 5 * i + 1)
ThreeSteps(i) ==
    RowSegment(i) = << <<"get_row", subout[i]>>, <<"run", "T">>, <<"fill", args.qr.ncol>>,
                       <<"run", "N">>, <<"set_row", i - 1>> >>

BoundDisabled == Len(args.lower_bound) = 1 /\ args.lower_bound[1].kind # "fin"
SameSampleCount == args.qr.nrow = args.exprs.ncol

\* C2 (as amended): with the lower bound disabled, every written row equals
\* row - Q1 (Q1^T row) and was obtained by Q^T, zero-fill of the first ncoefs
\* entries, Q, in that order; for the intercept-only design on 3 samples and
\* row [5, 1, 9] the output is the row minus its mean 5, [0, -4, 4].
C2_ResidualIsProjection ==
    (BoundDisabled /\ SameSampleCount) =>
        \A i \in 1..s :
            /\ OutRow(i) = LeastSquaresResidual(args.qr, args.qraux, AsNums(RawRow(i)))
            /\ ThreeSteps(i)
            /\ (args.qr = QR3 /\ RawRow(i) = <<5, 1, 9>>)
                  => OutRow(i) = <<Num(0), Num(-4), Num(4)>>

\* A finished call with the bound disabled that wrote row [5, 1, 9] under
\* the intercept-only design on 3 samples.
C2_Witness ==
    /\ pc = "done"
    /\ BoundDisabled
    /\ args.qr = QR3
    /\ \E i \in 1..s : RawRow(i) = <<5, 1, 9>>

\* C2 as stated: the same, with row [5, 1, 9] output as the row minus 14/3.
C2_Original ==
    (BoundDisabled /\ SameSampleCount) =>
        \A i \in 1..s :
            /\ OutRow(i) = LeastSquaresResidual(args.qr, args.qraux, AsNums(RawRow(i)))
            /\ ThreeSteps(i)
            /\ (args.qr = QR3 /\ RawRow(i) = <<5, 1, 9>>)
                  => OutRow(i) = <<Sub(Num(5), <<14, 0, 3>>), Sub(Num(1), <<14, 0, 3>>),
                                   Sub(Num(9), <<14, 0, 3>>)>>

\* C3: an output row depends only on its input row, the factorization and
\* the lower bound: it equals the row the previous call on the same matrix,
\* factorization and bound returned for the same input row (so row 0 of
\* subset = [i] equals row i of subset = all rows), and a row index repeated
\* in the subset yields identical output rows.
C3_RowsIndependent ==
    InBounds(args) =>
        \A i \in 1..s :
            /\ (prev.n >= 0 /\ prev.rows[subout[i]] # None)
                  => OutRow(i) = prev.rows[subout[i]]
            /\ \A j \in 1..s : subout[i] = subout[j] => OutRow(i) = OutRow(j)

\* A finished call on all rows, bound enabled, following a call on the
\* single row 1.
C3_Witness ==
    /\ pc = "done"
    /\ BoundFinite
    /\ subout = <<0, 1>>
    /\ prev.n = 1
    /\ prev.rows[1] # None

\* C4 as stated: the output parameters mirror the input's class and package
\* except for class "dgCMatrix" of package "Matrix", which gets the default.
C4_Original ==
    OPARAM # None =>
        OPARAM = IF args.exprs.cls = "dgCMatrix" /\ args.exprs.pkg = "Matrix"
                 THEN output_param_default
                 ELSE output_param(args.exprs.cls, args.exprs.pkg)

\* C5 as stated: when the factorization's sample count differs from the
\* column count, or ncoefs exceeds it, the call fails before any row is
\* read, transformed or written.
DimensionMismatch == args.qr.nrow # args.exprs.ncol \/ args.qr.ncol > args.exprs.ncol
C5_Original ==
    DimensionMismatch =>
        /\ pc # "done"
        /\ \A k \in 1..Len(log) : log[k][1] \notin {"get_row", "run", "fill", "set_row"}

\* C6: an out-of-range subset index (at any position), an invalid
\* factorization or a non-scalar lower bound ends the call in an error with
\* no output allocated and no row read or written; an error is raised only
\* for such inputs and only before the loop.
InvalidInput ==
    \/ ~check_subset_ok(args.subset, args.exprs.nrow)
    \/ ~run_dormqr_valid(args.qr, args.qraux)
    \/ ~check_numeric_scalar_ok(args.lower_bound)
C6_ValidationUpfront ==
    /\ pc = "error" => (InvalidInput /\ log = <<>> /\ omat = NoMatrix)
    /\ InvalidInput => (pc \in {"entry", "qr", "lbound", "error"}
                           /\ log = <<>> /\ omat = NoMatrix)

\* A call rejected for an out-of-range index that is not the first.
C6_Witness ==
    /\ pc = "error"
    /\ Len(args.subset) = 2
    /\ args.subset[1] = 0
    /\ args.subset[2] = 2

\* C8: with an empty subset no row is read or written, and the call returns
\* an output of 0 rows and the input's column count, finalized once.
C8_EmptySubset ==
    args.subset = <<>> =>
        /\ \A k \in 1..Len(log) : log[k][1] \notin {"get_row", "set_row"}
        /\ pc = "done" =>
              /\ omat.nrow = 0
              /\ omat.ncol = args.exprs.ncol
              /\ omat.rows = <<>>
              /\ omat.yielded
              /\ log = << <<"alloc", 0, args.exprs.ncol>>, <<"yield">> >>

\* A returned call with an empty subset.
C8_Witness == pc = "done" /\ args.subset = <<>>

\* C10: the calls on the matrices are: one allocation of n x ncol, then for
\* s = 0..n-1 get_row(subset[s]) followed by set_row(s), then one yield; the
\* input matrix is never changed and every output row is set on return.
IsAccessorCall(e) == e[1] \in {"alloc", "get_row", "set_row", "yield"}
AccessLog == SelectSeq(log, IsAccessorCall)
ExpectedAccess(sub) ==
    [k \in 1..(2 * Len(sub) + 2) |->
        IF k = 1 THEN <<"alloc", Len(sub), args.exprs.ncol>>
        ELSE IF k = 2 * Len(sub) + 2 THEN <<"yield">>
        ELSE IF k % 2 = 0 THEN <<"get_row", sub[k \div 2]>>
        ELSE <<"set_row", (k \div 2) - 1>>]
IsPrefix(xs, ys) == Len(xs) <= Len(ys) /\ xs = SubSeq(ys, 1, Len(xs))
C10_AccessOrder ==
    /\ IsPrefix(AccessLog, ExpectedAccess(args.subset))
    /\ pc # "entry" => emat = args.exprs
    /\ pc = "done" =>
          /\ AccessLog = ExpectedAccess(args.subset)
          /\ omat.nrow = Len(args.subset)
          /\ omat.ncol = args.exprs.ncol
          /\ omat.yielded
          /\ \A i \in 1..omat.nrow : omat.rows[i] # None

\* A returned call on a subset of two rows in decreasing order.
C10_Witness == pc = "done" /\ args.subset = <<1, 0>>

=============================================================================
